---- MODULE Spec2Model ----
(***************************************************************************)
(* Azure AD integration addon: hr.employee provisioning                    *)
(* (create / _create_azure_email / _add_to_dept_dl) and hr.department      *)
(* group linking (action_sync_dl_from_azure), run against a model of the   *)
(* remote directory (accounts, groups, memberships).                       *)
(*                                                                         *)
(* Every remote call (token, lookup, create-account, add-member, search)   *)
(* is one atomic step: the request is sent and the response handled, with  *)
(* all local computation up to the next remote call.  Runs of different    *)
(* records interleave between remote calls.                                *)
(***************************************************************************)
EXTENDS Integers, Sequences, FiniteSets, TLC

\* ------------------------------------------------------------------ bounds
\* number of addresses (base, base2, ...) a directory may hold at the start
MaxExisting == 1

\* number of _add_to_dept_dl runs on one record
MaxLinkRuns == 2

\* number of addresses a directory may hold when the probe cap is exercised
MaxTaken == 100

\* the longest display name of the records whose names vary
MaxNameLen == 5

\* ------------------------------------------------------- program constants
\* while count < 100
ProbeCap == 100

\* ------------------------------------------------------------------ values
\* An unset Char field reads as a falsy value
None == ""

Emps == {"e1", "e2"}
Depts == {"d1"}

ConfigKeys == {"azure_tenant_id", "azure_client_id", "azure_client_secret", "azure_domain"}

\* the value stored under azure_domain when it is present
DomainValue == "x.y"

\* display names, as sequences of characters
NameAB == <<"A", " ", "B">>
NameAb == <<"a", " ", " ", "b">>
NameA == <<"A">>
NameACB == <<"A", " ", "c", " ", "B">>
NameBlank == <<" ">>
EmpNames == {NameAB, NameAb, NameA, NameACB, NameBlank, <<>>}

\* unit names
DeptHr == <<"h", "r">>
DeptRD == <<"R", " ", "&", " ", "D">>
DeptNames == {DeptHr, DeptRD}

\* ----------------------------------------------------------- str methods
\* str.lower(), on the characters the names use
LowerChar(c) ==
    CASE c = "A" -> "a"
      [] c = "B" -> "b"
      [] c = "D" -> "d"
      [] c = "H" -> "h"
      [] c = "R" -> "r"
      [] OTHER -> c

Lower(s) == [i \in 1..Len(s) |-> LowerChar(s[i])]

IsSpace(c) == c = " "

\* str.split() without arguments: the maximal runs of non-whitespace
RECURSIVE SplitFrom(_, _, _)
SplitFrom(s, cur, acc) ==
    IF s = <<>> THEN (IF cur = <<>> THEN acc ELSE Append(acc, cur))
    ELSE IF IsSpace(Head(s))
         THEN SplitFrom(Tail(s), <<>>, IF cur = <<>> THEN acc ELSE Append(acc, cur))
         ELSE SplitFrom(Tail(s), Append(cur, Head(s)), acc)

Split(s) == SplitFrom(s, <<>>, <<>>)

\* str.strip()
RECURSIVE LStrip(_)
LStrip(s) == IF s # <<>> /\ IsSpace(Head(s)) THEN LStrip(Tail(s)) ELSE s

RECURSIVE RStrip(_)
RStrip(s) ==
    IF s # <<>> /\ IsSpace(s[Len(s)]) THEN RStrip(SubSeq(s, 1, Len(s) - 1)) ELSE s

Strip(s) == RStrip(LStrip(s))

\* str.replace(old, new) for a one-character old
RECURSIVE Replace(_, _, _)
Replace(s, old, new) ==
    IF s = <<>> THEN <<>>
    ELSE (IF Head(s) = old THEN new ELSE <<Head(s)>>) \o Replace(Tail(s), old, new)

\* the characters of a sequence as one string
RECURSIVE Join(_)
Join(s) == IF s = <<>> THEN "" ELSE Head(s) \o Join(Tail(s))

\* str(n) for n >= 0, as f"{count}" formats it
Digit(d) == CASE d = 0 -> "0" [] d = 1 -> "1" [] d = 2 -> "2" [] d = 3 -> "3"
              [] d = 4 -> "4" [] d = 5 -> "5" [] d = 6 -> "6" [] d = 7 -> "7"
              [] d = 8 -> "8" [] d = 9 -> "9"

RECURSIVE Str(_)
Str(n) == IF n < 10 THEN Digit(n) ELSE Str(n \div 10) \o Digit(n % 10)

\* ------------------------------------------------- address derivation
\* parts = self.name.strip().lower().split()
Parts(name) == Split(Lower(Strip(name)))

\* parts[0] raises IndexError on an empty list
DerivationRaises(name) == Parts(name) = <<>>

First(name) == Parts(name)[1]

\* the second part taken for the last one
LastPart_Second(name) ==
    IF Len(Parts(name)) > 1 THEN Parts(name)[2] ELSE First(name)

\* last = parts[-1] if len(parts) > 1 else first
LastPart(name) ==
    IF Len(Parts(name)) > 1 THEN Parts(name)[Len(Parts(name))] ELSE First(name)

\* base = f"{first}.{last}"
Base(name) == Join(First(name)) \o "." \o Join(LastPart(name))

\* email = f"{base}@{domain}"
BaseEmail(name, domain) == Base(name) \o "@" \o domain

\* unique_email = f"{base}{count}@{domain}"
SuffixedEmail(name, n, domain) == Base(name) \o Str(n) \o "@" \o domain

\* the candidate the loop holds when its counter is n
Candidate(name, n, domain) ==
    IF n = 1 THEN BaseEmail(name, domain) ELSE SuffixedEmail(name, n, domain)

\* ------------------------------------------------------------------ state
VARIABLES
    config,        \* the keys of ir.config_parameter that hold a value
    vals,          \* per record the upstream system creates: the values it gives
    emp,           \* per record: the stored fields of hr.employee
    pc,            \* per record: position of its create / _add_to_dept_dl call
    count,         \* per record: local count of _create_azure_email
    unique_email,  \* per record: local unique_email of _create_azure_email
    token,         \* per record: local token of _add_to_dept_dl
    calls,         \* per record: remote calls issued by its _create_azure_email run
    lcalls,        \* per record: remote calls issued by its current or last
                   \* _add_to_dept_dl run
    outcome,       \* per record: how its _create_azure_email run ended
    linkRuns,      \* per record: the number of its _add_to_dept_dl runs that ended
    linkLast,      \* per record: how its last _add_to_dept_dl run ended
    dept,          \* per unit: the stored fields of hr.department
    dpc,           \* per unit: position of its action_sync_dl_from_azure call
    dcalls,        \* per unit: remote calls issued by the current sync run
    dres,          \* per unit: how its last sync run ended
    users,         \* directory: principal names of the existing accounts
    groups,        \* directory: the existing groups, as [mail, id]
    members        \* directory: memberships, as <<group id, account id>>

empVars ==
    <<vals, emp, pc, count, unique_email, token, calls, lcalls, outcome, linkRuns, linkLast>>
deptVars == <<dept, dpc, dcalls, dres>>
dirVars == <<users, groups, members>>
vars == <<config, empVars, deptVars, dirVars>>

\* a remote call: the endpoint, its argument and the answer ("exc": it raised)
Call(op, arg, status) == [op |-> op, arg |-> arg, status |-> status]

\* IrConfig.get_param(key): the stored value, or a falsy value
GetParam(key) ==
    IF key \in config THEN (IF key = "azure_domain" THEN DomainValue ELSE key) ELSE None

\* all([tenant_id, client_id, client_secret, domain])
AllCredentials ==
    /\ GetParam("azure_tenant_id") # None
    /\ GetParam("azure_client_id") # None
    /\ GetParam("azure_client_secret") # None
    /\ GetParam("azure_domain") # None

\* --------------------------------------------------------------- directory
\* the reference the directory gives the account with this principal name
UserId(upn) == "id:" \o upn

GroupId(mail) == "gid:" \o mail

Group(mail) == [mail |-> mail, id |-> GroupId(mail)]

\* the account an already provisioned record refers to
LegacyUpn(e) == e \o "@" \o DomainValue

\* what a request can come back with: a request that carries timeout=30
\* raises when the directory does not answer (the "exc" among its answers),
\* a request made without a timeout then waits for ever ("hang")
Answers(carriesTimeout, answers) ==
    IF carriesTimeout THEN answers ELSE answers \cup {"hang"}

\* token endpoint: a token is granted only to a complete client credential;
\* it may also answer without access_token, or the call may raise
TokenAnswers ==
    IF {"azure_tenant_id", "azure_client_id", "azure_client_secret"} \subseteq config
    THEN {"ok", "notoken", "exc"}
    ELSE {"notoken", "exc"}

\* GET /users/{upn}: 200 when the account exists, 404 when it does not;
\* any call may instead fail with another status or raise (timeout)
LookupAnswers(upn) == {IF upn \in users THEN "200" ELSE "404", "500", "exc"}

\* POST /users: 201 only for a principal name no account holds
CreateAnswers(upn) == (IF upn \in users THEN {} ELSE {"201"}) \cup {"400", "exc"}

\* POST /groups/{id}/members/$ref: needs a valid token and an existing group;
\* 204 for a new member, 400 for a duplicate
AddAnswers(tok, gid, uid) ==
    (IF tok = None THEN {"401"}
     ELSE IF gid \notin {g.id : g \in groups} THEN {"404"}
     ELSE IF <<gid, uid>> \in members THEN {"400"}
     ELSE {"204"}) \cup {"500", "exc"}

\* GET /groups?$filter=mail eq '...': 200 with the matching groups
SearchAnswers == {"200", "500", "exc"}

\* response.json().get('value', []) of a search answered 200
SearchValue(mail) ==
    IF \E g \in groups : g.mail = mail
    THEN <<CHOOSE g \in groups : g.mail = mail>>
    ELSE <<>>

\* ------------------------------------------------------- hr.employee
\* a record before the upstream system has created it
NoRecord ==
    [name |-> <<>>, department_id |-> None, azure_email |-> None,
     work_email |-> None, azure_user_id |-> None]

\* the guard without its test of the account reference
LinkGuard_UnitOnly(r) == r.department_id # None

\* if emp.department_id and emp.azure_user_id  /  the guard of _add_to_dept_dl
LinkGuard(r) == r.department_id # None /\ r.azure_user_id # None

\* create_dl called without looking at the unit's link
NeedsCreateDl_Always(d) == TRUE

\* if not dept.azure_dl_id: dept.create_dl()
NeedsCreateDl(d) == dept[d].azure_dl_id = None

\* the requests made whether or not the unit has a linked group
HasGroup_Always(dp) == TRUE

\* if dept.azure_dl_id:
HasGroup(dp) == dp.azure_dl_id # None

\* where _add_to_dept_dl goes once its guard has passed
LinkEntry(r) == IF NeedsCreateDl(r.department_id) THEN "dl_create_dl" ELSE "dl_token"

\* where create goes when _create_azure_email has returned
AfterAlloc(r) == IF LinkGuard(r) THEN LinkEntry(r) ELSE "done"

\* while count < 100
LoopContinues(c) == c < ProbeCap

\* self.azure_email = unique_email; self.work_email = unique_email
StoreCreated(r, upn) == [r EXCEPT !.azure_email = upn, !.work_email = upn]

\* every status but 200 taken for a free address
CheckBranch_ErrorAsFree(status) ==
    CASE status = "200" -> "taken"
      [] OTHER -> "free"

\* the branch _create_azure_email takes on a lookup status
CheckBranch(status) ==
    CASE status = "404" -> "free"
      [] status = "200" -> "taken"
      [] OTHER -> "error"

\* only 204 taken for a success
AddOutcome_400Fails(status) ==
    CASE status = "204" -> "Added"
      [] OTHER -> "MembershipLinkFailed"

\* the branch _add_to_dept_dl takes on an add-member status
AddOutcome(status) ==
    CASE status = "204" -> "Added"
      [] status = "400" -> "AlreadyMember"
      [] OTHER -> "MembershipLinkFailed"

Log(e, op, arg, status) == calls' = [calls EXCEPT ![e] = Append(@, Call(op, arg, status))]

LinkLog(e, op, arg, status) ==
    lcalls' = [lcalls EXCEPT ![e] = Append(@, Call(op, arg, status))]

\* any answered create-account request taken for a success
CreateSucceeded_AnyAnswer(status) == status # "exc"

\* if create_response.status_code == 201
CreateSucceeded(status) == status = "201"

\* a rejected creation sent back into the uniqueness loop
AfterRejected_Reprobe(r) == "cae_check"

\* the else branch of the result check only logs: the method ends there
AfterRejected(r) == AfterAlloc(r)

\* _create_azure_email returns with the given log line; create goes on
AllocReturns(e, how, r) ==
    /\ outcome' = [outcome EXCEPT ![e] = how]
    /\ pc' = [pc EXCEPT ![e] = AfterAlloc(r)]

\* the requests of _add_to_dept_dl left outside its try block
AfterLink_Uncaught(how) == IF how = "Exception" THEN "raised" ELSE "done"

\* every branch of _add_to_dept_dl, the except clause included, logs and
\* returns to the caller
AfterLink(how) == "done"

\* _add_to_dept_dl returns
LinkReturns(e, how) ==
    /\ linkRuns' = [linkRuns EXCEPT ![e] = @ + 1]
    /\ linkLast' = [linkLast EXCEPT ![e] = how]
    /\ pc' = [pc EXCEPT ![e] = AfterLink(how)]

\* create(vals), up to the token request of _create_azure_email
Create(e) ==
    /\ e \in DOMAIN vals
    /\ pc[e] = "new"
    /\ emp' = [emp EXCEPT ![e] = vals[e]]
    /\ IF vals[e].name = <<>>
       THEN /\ pc' = [pc EXCEPT ![e] = "done"]
            /\ UNCHANGED outcome
       ELSE IF ~AllCredentials
       THEN AllocReturns(e, "CredentialsMissing", vals[e])
       ELSE IF DerivationRaises(vals[e].name)
       THEN AllocReturns(e, "Exception", vals[e])
       ELSE /\ pc' = [pc EXCEPT ![e] = "cae_token"]
            /\ UNCHANGED outcome
    /\ UNCHANGED <<config, vals, count, unique_email, token, calls, lcalls, linkRuns,
                   linkLast, deptVars, dirVars>>

\* _create_azure_email: the token request and what follows, up to the loop
AllocToken(e) ==
    /\ pc[e] = "cae_token"
    /\ \E a \in Answers(TRUE, TokenAnswers) :
        /\ Log(e, "token", "", a)
        /\ IF a = "ok"
           THEN /\ count' = [count EXCEPT ![e] = 1]
                /\ unique_email' =
                       [unique_email EXCEPT ![e] = BaseEmail(emp[e].name, GetParam("azure_domain"))]
                /\ pc' = [pc EXCEPT ![e] = IF LoopContinues(1) THEN "cae_check" ELSE "cae_create"]
                /\ UNCHANGED outcome
           ELSE /\ AllocReturns(e, IF a = "notoken" THEN "TokenFailed" ELSE "Exception", emp[e])
                /\ UNCHANGED <<count, unique_email>>
    /\ UNCHANGED <<config, vals, emp, token, lcalls, linkRuns, linkLast, deptVars, dirVars>>

\* _create_azure_email: one iteration of the uniqueness loop
AllocCheck(e) ==
    /\ pc[e] = "cae_check"
    /\ \E a \in Answers(TRUE, LookupAnswers(unique_email[e])) :
        /\ Log(e, "lookup", unique_email[e], a)
        /\ IF a = "exc"
           THEN /\ AllocReturns(e, "Exception", emp[e])
                /\ UNCHANGED <<count, unique_email>>
           ELSE IF CheckBranch(a) = "free"
           THEN /\ pc' = [pc EXCEPT ![e] = "cae_create"]
                /\ UNCHANGED <<count, unique_email, outcome>>
           ELSE IF CheckBranch(a) = "taken"
           THEN /\ count' = [count EXCEPT ![e] = @ + 1]
                /\ unique_email' =
                       [unique_email EXCEPT ![e] =
                           SuffixedEmail(emp[e].name, count[e] + 1, GetParam("azure_domain"))]
                /\ pc' = [pc EXCEPT ![e] =
                             IF LoopContinues(count[e] + 1) THEN "cae_check" ELSE "cae_create"]
                /\ UNCHANGED outcome
           ELSE /\ AllocReturns(e, "LookupError", emp[e])
                /\ UNCHANGED <<count, unique_email>>
    /\ UNCHANGED <<config, vals, emp, token, lcalls, linkRuns, linkLast, deptVars, dirVars>>

\* _create_azure_email: the create-account request and the saving of its result
AllocCreate(e) ==
    /\ pc[e] = "cae_create"
    /\ \E a \in Answers(TRUE, CreateAnswers(unique_email[e])) :
        /\ Log(e, "create", unique_email[e], a)
        /\ users' = IF a = "201" THEN users \cup {unique_email[e]} ELSE users
        /\ IF a = "exc"
           THEN /\ AllocReturns(e, "Exception", emp[e])
                /\ UNCHANGED emp
           ELSE IF CreateSucceeded(a)
           THEN /\ emp' = [emp EXCEPT ![e] = StoreCreated(@, unique_email[e])]
                /\ AllocReturns(e, "Created", emp'[e])
           ELSE /\ outcome' = [outcome EXCEPT ![e] = "CreationFailed"]
                /\ pc' = [pc EXCEPT ![e] = AfterRejected(emp[e])]
                /\ UNCHANGED emp
    /\ UNCHANGED <<config, vals, count, unique_email, token, lcalls, linkRuns, linkLast,
                   deptVars, groups, members>>

\* ----------------------------------------------------- group naming
\* self.name.replace(' ', '_').replace('&', 'and')
DeptNameUpper(name) == Join(Replace(Replace(name, " ", <<"_">>), "&", <<"a", "n", "d">>))

\* self.name.lower().replace(' ', '_').replace('&', 'and')
DeptNameLower(name) ==
    Join(Replace(Replace(Lower(name), " ", <<"_">>), "&", <<"a", "n", "d">>))

\* f"DL_{dept_name}@{domain}"
DlEmail(deptName, domain) == "DL_" \o deptName \o "@" \o domain

\* self.write({'azure_dl_email': group.get('mail'), 'azure_dl_id': group.get('id')})
LinkedTo(dp, g) == [dp EXCEPT !.azure_dl_email = g.mail, !.azure_dl_id = g.id]

\* ------------------------------------------- hr.employee._add_to_dept_dl
\* dept.create_dl(): creates the unit's group and links the unit to it, or
\* leaves the unit as it is
LinkCreateDl(e) ==
    /\ pc[e] = "dl_create_dl"
    /\ LET d == emp[e].department_id
           g == Group(DlEmail(DeptNameUpper(dept[d].name), DomainValue))
       IN \E made \in BOOLEAN :
            /\ IF made
               THEN /\ groups' = groups \cup {g}
                    /\ dept' = [dept EXCEPT ![d] = LinkedTo(@, g)]
               ELSE UNCHANGED <<groups, dept>>
            /\ IF HasGroup(dept'[d])
               THEN /\ pc' = [pc EXCEPT ![e] = "dl_token"]
                    /\ UNCHANGED <<linkRuns, linkLast>>
               ELSE LinkReturns(e, "NoGroup")
    /\ UNCHANGED <<config, vals, emp, count, unique_email, token, calls, lcalls, outcome,
                   dpc, dcalls, dres, users, members>>

\* the token request of _add_to_dept_dl
LinkToken(e) ==
    /\ pc[e] = "dl_token"
    /\ \E a \in Answers(FALSE, TokenAnswers) :
        /\ LinkLog(e, "token", "", a)
        /\ IF a = "hang"
           THEN /\ pc' = [pc EXCEPT ![e] = "dl_blocked"]
                /\ UNCHANGED <<token, linkRuns, linkLast>>
           ELSE IF a = "exc"
           THEN /\ LinkReturns(e, "Exception")
                /\ UNCHANGED token
           ELSE /\ token' = [token EXCEPT ![e] = IF a = "ok" THEN "tok" ELSE None]
                /\ pc' = [pc EXCEPT ![e] = "dl_add"]
                /\ UNCHANGED <<linkRuns, linkLast>>
    /\ UNCHANGED <<config, vals, emp, count, unique_email, calls, outcome, deptVars, dirVars>>

\* the add-member request of _add_to_dept_dl
LinkAdd(e) ==
    /\ pc[e] = "dl_add"
    /\ LET gid == dept[emp[e].department_id].azure_dl_id
           uid == emp[e].azure_user_id
       IN \E a \in Answers(FALSE, AddAnswers(token[e], gid, uid)) :
            /\ LinkLog(e, "add", gid \o "/" \o uid, a)
            /\ members' = IF a = "204" THEN members \cup {<<gid, uid>>} ELSE members
            /\ IF a = "hang"
               THEN /\ pc' = [pc EXCEPT ![e] = "dl_blocked"]
                    /\ UNCHANGED <<linkRuns, linkLast>>
               ELSE LinkReturns(e, IF a = "exc" THEN "Exception" ELSE AddOutcome(a))
    /\ UNCHANGED <<config, vals, emp, count, unique_email, token, calls, outcome, deptVars,
                   users, groups>>

\* a call of _add_to_dept_dl on a stored record, up to its first request
AddToDeptDl(e) ==
    /\ pc[e] = "done"
    /\ linkRuns[e] < MaxLinkRuns
    /\ lcalls' = [lcalls EXCEPT ![e] = <<>>]
    /\ IF LinkGuard(emp[e])
       THEN /\ pc' = [pc EXCEPT ![e] = LinkEntry(emp[e])]
            /\ UNCHANGED <<linkRuns, linkLast>>
       ELSE LinkReturns(e, "Skipped")
    /\ UNCHANGED <<config, vals, emp, count, unique_email, token, calls, outcome,
                   deptVars, dirVars>>

\* ------------------------------- hr.department.action_sync_dl_from_azure
SyncReturns(d, how) ==
    /\ dres' = [dres EXCEPT ![d] = how]
    /\ dpc' = [dpc EXCEPT ![d] = "idle"]

DLog(d, op, arg, status) ==
    dcalls' = [dcalls EXCEPT ![d] =
                  Append(@, Call(op, arg, status))]

\* the body of the response read whatever its status
SearchGroups_AnyStatus(status, mail) == SearchValue(mail)

\* groups = response.json().get('value', []) when the status is 200, else []
SearchGroups(status, mail) == IF status = "200" THEN SearchValue(mail) ELSE <<>>

\* the second search made after every miss
TriesLower_AfterAnyMiss(found, name) == found = <<>>

\* if not groups and dept_name_upper != dept_name_lower
TriesLower(found, name) == found = <<>> /\ DeptNameUpper(name) # DeptNameLower(name)

\* the action, up to its token request
SyncStart(d) ==
    /\ dpc[d] = "idle"
    /\ dcalls' = [dcalls EXCEPT ![d] = <<>>]
    /\ IF ~AllCredentials
       THEN SyncReturns(d, "CredentialsMissing")
       ELSE /\ dpc' = [dpc EXCEPT ![d] = "sync_token"]
            /\ dres' = [dres EXCEPT ![d] = None]
    /\ UNCHANGED <<config, empVars, dept, dirVars>>

SyncToken(d) ==
    /\ dpc[d] = "sync_token"
    /\ \E a \in Answers(TRUE, TokenAnswers) :
        /\ DLog(d, "token", "", a)
        /\ IF a = "ok"
           THEN /\ dpc' = [dpc EXCEPT ![d] = "sync_upper"]
                /\ UNCHANGED dres
           ELSE SyncReturns(d, IF a = "notoken" THEN "TokenFailed" ELSE "Exception")
    /\ UNCHANGED <<config, empVars, dept, dirVars>>

\* the search for the case-preserved address, and what follows it
SyncSearchUpper(d) ==
    /\ dpc[d] = "sync_upper"
    /\ LET mail == DlEmail(DeptNameUpper(dept[d].name), GetParam("azure_domain"))
       IN \E a \in Answers(TRUE, SearchAnswers) :
            /\ DLog(d, "search", mail, a)
            /\ IF a = "exc"
               THEN /\ SyncReturns(d, "Exception")
                    /\ UNCHANGED dept
               ELSE IF TriesLower(SearchGroups(a, mail), dept[d].name)
               THEN /\ dpc' = [dpc EXCEPT ![d] = "sync_lower"]
                    /\ UNCHANGED <<dres, dept>>
               ELSE IF SearchGroups(a, mail) # <<>>
               THEN /\ dept' = [dept EXCEPT ![d] = LinkedTo(@, SearchGroups(a, mail)[1])]
                    /\ SyncReturns(d, "Linked")
               ELSE /\ SyncReturns(d, "NotFound")
                    /\ UNCHANGED dept
    /\ UNCHANGED <<config, empVars, dirVars>>

\* the search for the lowercase address, and what follows it
SyncSearchLower(d) ==
    /\ dpc[d] = "sync_lower"
    /\ LET mail == DlEmail(DeptNameLower(dept[d].name), GetParam("azure_domain"))
       IN \E a \in Answers(TRUE, SearchAnswers) :
            /\ DLog(d, "search", mail, a)
            /\ IF a = "exc"
               THEN /\ SyncReturns(d, "Exception")
                    /\ UNCHANGED dept
               ELSE IF SearchGroups(a, mail) # <<>>
               THEN /\ dept' = [dept EXCEPT ![d] = LinkedTo(@, SearchGroups(a, mail)[1])]
                    /\ SyncReturns(d, "Linked")
               ELSE /\ SyncReturns(d, "NotFound")
                    /\ UNCHANGED dept
    /\ UNCHANGED <<config, empVars, dirVars>>

\* ------------------------------------------------------- specifications
\* the values of a record the upstream system creates
Vals(e, name, d, provisioned) ==
    [name |-> name, department_id |-> d,
     azure_email |-> IF provisioned THEN LegacyUpn(e) ELSE None,
     work_email |-> IF provisioned THEN LegacyUpn(e) ELSE None,
     azure_user_id |-> IF provisioned THEN UserId(LegacyUpn(e)) ELSE None]

\* the first k addresses of the base "a.b": a.b@, a.b2@, ..., a.b<k>@
Taken(k) == {Candidate(NameAB, n, DomainValue) : n \in 1..k}

\* the groups a unit's two address forms name
FormGroups(name) ==
    {Group(DlEmail(DeptNameUpper(name), DomainValue)),
     Group(DlEmail(DeptNameLower(name), DomainValue))}

InitWith(configs, records, taken, deptNames) ==
    /\ config \in configs
    /\ vals \in records
    /\ emp = [e \in Emps |-> NoRecord]
    /\ pc = [e \in Emps |-> "new"]
    /\ count = [e \in Emps |-> 0]
    /\ unique_email = [e \in Emps |-> None]
    /\ token = [e \in Emps |-> None]
    /\ calls = [e \in Emps |-> <<>>]
    /\ lcalls = [e \in Emps |-> <<>>]
    /\ outcome = [e \in Emps |-> None]
    /\ linkRuns = [e \in Emps |-> 0]
    /\ linkLast = [e \in Emps |-> None]
    /\ \E n \in deptNames :
        /\ dept = [d \in Depts |-> [name |-> n, azure_dl_email |-> None, azure_dl_id |-> None]]
        /\ groups \in SUBSET FormGroups(n)
    /\ dpc = [d \in Depts |-> "idle"]
    /\ dcalls = [d \in Depts |-> <<>>]
    /\ dres = [d \in Depts |-> None]
    /\ \E k \in taken : users = Taken(k) \cup {LegacyUpn(e) : e \in Emps}
    /\ members = {}

AllConfigs == {ConfigKeys} \cup {ConfigKeys \ {k} : k \in ConfigKeys}

\* one record, created with or without a unit and with or without the
\* fields of an earlier provisioning, and the unit's sync action
Init ==
    InitWith(AllConfigs,
             {[e \in {"e1"} |-> Vals(e, NameAB, d, p)] : d \in Depts \cup {None}, p \in BOOLEAN},
             0..MaxExisting, DeptNames)

Next ==
    \/ \E e \in Emps : Create(e)
    \/ \E e \in Emps : AllocToken(e)
    \/ \E e \in Emps : AllocCheck(e)
    \/ \E e \in Emps : AllocCreate(e)
    \/ \E e \in Emps : LinkCreateDl(e)
    \/ \E e \in Emps : LinkToken(e)
    \/ \E e \in Emps : LinkAdd(e)
    \/ \E e \in Emps : AddToDeptDl(e)
    \/ \E d \in Depts : SyncStart(d)
    \/ \E d \in Depts : SyncToken(d)
    \/ \E d \in Depts : SyncSearchUpper(d)
    \/ \E d \in Depts : SyncSearchLower(d)

Spec == Init /\ [][Next]_vars

\* one record provisioned by _create_azure_email alone, against directories
\* that hold up to MaxTaken addresses of its base
InitAlloc ==
    InitWith({ConfigKeys},
             {[e \in {"e1"} |-> Vals(e, NameAB, None, FALSE)]},
             0..MaxTaken, {DeptHr})

NextAlloc ==
    \/ \E e \in Emps : Create(e)
    \/ \E e \in Emps : AllocToken(e)
    \/ \E e \in Emps : AllocCheck(e)
    \/ \E e \in Emps : AllocCreate(e)

SpecAlloc == InitAlloc /\ [][NextAlloc]_vars

\* two records with the same base provisioned concurrently
InitRace ==
    InitWith({ConfigKeys},
             {[e \in Emps |-> Vals(e, IF e = "e1" THEN NameAB ELSE NameAb, None, FALSE)]},
             0..MaxExisting, {DeptHr})

SpecRace == InitRace /\ [][NextAlloc]_vars

\* the characters of the display names that vary: one of each case, and a space
NameChars == {"A", "b", " "}

AllNames == UNION {[1..k -> NameChars] : k \in 0..MaxNameLen}

\* one record with any display name, provisioned against a directory that
\* holds no address of its base
InitNames ==
    InitWith({ConfigKeys},
             {[e \in {"e1"} |-> Vals(e, n, None, FALSE)] : n \in AllNames},
             {0}, {DeptHr})

SpecNames == InitNames /\ [][NextAlloc]_vars

\* the steps of the run of a record once create was called
RunStep(e) ==
    \/ AllocToken(e)
    \/ AllocCheck(e)
    \/ AllocCreate(e)
    \/ LinkCreateDl(e)
    \/ LinkToken(e)
    \/ LinkAdd(e)

\* the steps of a run of the sync action once it was called
SyncStep(d) == SyncToken(d) \/ SyncSearchUpper(d) \/ SyncSearchLower(d)

\* a method that was called runs on: each of its statements is executed in
\* turn, and each request is made. Nothing obliges anyone to call create,
\* _add_to_dept_dl or the sync action.
Fairness ==
    /\ \A e \in Emps : WF_vars(RunStep(e))
    /\ \A d \in Depts : WF_vars(SyncStep(d))

\* one record with a unit and the fields of an earlier provisioning
InitLive ==
    InitWith({ConfigKeys},
             {[e \in {"e1"} |-> Vals(e, NameAB, d, TRUE)] : d \in Depts},
             {0}, {DeptRD})

SpecLive == InitLive /\ [][Next]_vars /\ Fairness

TypeOK ==
    /\ config \subseteq ConfigKeys
    /\ \A e \in Emps : pc[e] \in {"new", "cae_token", "cae_check", "cae_create",
                                  "dl_create_dl", "dl_token", "dl_add", "dl_blocked",
                                  "done"}
    /\ \A d \in Depts : dpc[d] \in {"idle", "sync_token", "sync_upper", "sync_lower"}

\* ------------------------------------------------------------ call logs
IsLookup(c) == c.op = "lookup"

Lookups(e) == SelectSeq(calls[e], IsLookup)

IsCreate(c) == c.op = "create"

Creates(e) == SelectSeq(calls[e], IsCreate)

IsAdd(c) == c.op = "add"

Adds(e) == SelectSeq(lcalls[e], IsAdd)

IsSearch(c) == c.op = "search"

Searches(d) == SelectSeq(dcalls[d], IsSearch)

LastOf(q) == q[Len(q)]

\* the number of addresses base, base2, ... the directory holds in a row
RECURSIVE FirstFree(_)
FirstFree(n) ==
    IF Candidate(NameAB, n, DomainValue) \in users THEN FirstFree(n + 1) ELSE n

TakenInARow == FirstFree(1) - 1

\* ------------------------------------------------------------------ claims
\* C1: a run in which every probed candidate (the base address and every
\* suffixed address up to the cap) was reported present issues no
\* create-account call and ends in AddressExhausted.
C1_ExhaustionCreatesNothing ==
    \A e \in Emps :
        ( /\ Lookups(e) # <<>>
          /\ \A i \in DOMAIN Lookups(e) : Lookups(e)[i].status = "200"
          /\ pc[e] # "cae_check" )
        => /\ Creates(e) = <<>>
           /\ pc[e] = "done" => outcome[e] = "AddressExhausted"

\* C2: in every state azure_user_id and azure_email of a record are both
\* unset or both set.
C2_BothOrNeither ==
    \A e \in Emps : (emp[e].azure_user_id = None) <=> (emp[e].azure_email = None)

\* C3: with the base address and the suffixes 2..N taken and the next
\* address free, the allocator issues exactly N+1 lookups, for the base
\* address and then the suffixes 2..N+1 in increasing order, and then one
\* create-account call for the candidate it probed last.
C3_ProbesThenCreates ==
    \A e \in Emps :
        LET probes == Lookups(e)
            n == TakenInARow
        IN /\ pc[e] = "cae_create" =>
                 /\ Len(probes) = n + 1
                 /\ \A i \in DOMAIN probes :
                       /\ probes[i].arg = Candidate(emp[e].name, i, DomainValue)
                       /\ probes[i].status = IF i <= n THEN "200" ELSE "404"
                 /\ unique_email[e] = LastOf(probes).arg
           /\ Len(Creates(e)) <= 1
           /\ Creates(e) # <<>> => Creates(e)[1].arg = LastOf(probes).arg

\* C4: when the account creation of a record that has an organizational
\* unit succeeds, create goes on into _add_to_dept_dl (create_dl for an
\* unlinked unit, then the add-member request).
C4_LinkerFollowsCreation ==
    [][\A e \in Emps :
          (outcome[e] # "Created" /\ outcome'[e] = "Created" /\ emp'[e].department_id # None)
          => pc'[e] \in {"dl_create_dl", "dl_token"}]_vars

\* C5: a run of _create_azure_email that fails at the token request, at a
\* lookup or by an exception is over at the failing call and leaves the
\* record as it was created; the record is written only with the address of
\* a create-account call that was answered 201.
C5_FailureLeavesRecord ==
    \A e \in DOMAIN vals :
        pc[e] # "new" =>
            /\ outcome[e] \in {"TokenFailed", "LookupError", "Exception"} =>
                  /\ emp[e] = vals[e]
                  /\ pc[e] \notin {"cae_token", "cae_check", "cae_create"}
                  /\ calls[e] # <<>> => LastOf(calls[e]).status \in {"notoken", "500", "exc"}
            /\ emp[e] # vals[e] =>
                  /\ \E i \in DOMAIN calls[e] :
                        calls[e][i] = Call("create", emp[e].azure_email, "201")
                  /\ emp[e] = StoreCreated(vals[e], emp[e].azure_email)

\* a run that failed at a lookup left an already provisioned record untouched
C5_Witness ==
    \E e \in Emps :
        /\ outcome[e] = "LookupError"
        /\ pc[e] = "done"
        /\ emp[e].azure_email = LegacyUpn(e)
        /\ LastOf(calls[e]).status = "500"

\* C6: with one of the four configuration values absent, every operation
\* ends with CredentialsMissing and no remote call is issued.
C6_NoCallWithoutCredentials ==
    ~AllCredentials =>
        /\ \A e \in Emps :
              /\ calls[e] = <<>>
              /\ lcalls[e] = <<>>
              /\ outcome[e] \in {None, "CredentialsMissing"}
        /\ \A d \in Depts :
              /\ dcalls[d] = <<>>
              /\ dres[d] \in {None, "CredentialsMissing"}

\* C7, as stated: once a unit is linked, azure_dl_email and azure_dl_id
\* never change again.
C7_LinkedOnce == [][\A d \in Depts : HasGroup(dept[d]) => dept'[d] = dept[d]]_vars

\* the sync run of d ends in this step by writing the group it found
SyncWrites(d) ==
    /\ dpc[d] \in {"sync_upper", "sync_lower"}
    /\ dpc'[d] = "idle"
    /\ dres'[d] = "Linked"
    /\ dept'[d] = LinkedTo(dept[d], Group(LastOf(dcalls'[d]).arg))

\* a create_dl call on d returns in this step
CreateDlReturns(d) ==
    \E e \in DOMAIN vals :
        pc[e] = "dl_create_dl" /\ pc'[e] # "dl_create_dl" /\ emp[e].department_id = d

\* C7, amended: _add_to_dept_dl calls create_dl only for a unit it finds
\* without a linked group, and writes neither field itself; a linked
\* unit's fields are otherwise rewritten only by action_sync_dl_from_azure,
\* which does so on every run that finds a group.
C7_MemberLinkingKeepsLink ==
    [][/\ \A e \in DOMAIN vals :
             (pc[e] # "dl_create_dl" /\ pc'[e] = "dl_create_dl")
             => ~HasGroup(dept[emp'[e].department_id])
       /\ \A d \in Depts :
             (HasGroup(dept[d]) /\ dept'[d] # dept[d]) => SyncWrites(d) \/ CreateDlReturns(d)]_vars

\* a record is member of a group its unit was linked to before a later sync
\* run linked the unit to another group
C7_Witness ==
    \E d \in Depts, e \in DOMAIN vals :
        /\ emp[e].department_id = d
        /\ linkLast[e] = "Added"
        /\ dres[d] = "Linked"
        /\ HasGroup(dept[d])
        /\ \E m \in members : m[2] = emp[e].azure_user_id /\ m[1] # dept[d].azure_dl_id

\* the candidates a run found free
FoundFree(e) ==
    {calls[e][i].arg : i \in {j \in DOMAIN calls[e] : calls[e][j].op = "lookup"
                                                      /\ calls[e][j].status = "404"}}

Rejected(e) == Creates(e) # <<>> /\ Creates(e)[1].status = "400"

Accepted(e) == Creates(e) # <<>> /\ Creates(e)[1].status = "201"

\* C8: of two runs that found the same candidate free at most one has its
\* account created; a run whose create-account request is rejected ends
\* there with "Failed to create user", with one create-account request as
\* its last call, and its record keeps azure_email and azure_user_id unset.
C8_LoserStops ==
    \A e \in DOMAIN vals : \A f \in DOMAIN vals \ {e} :
        FoundFree(e) \cap FoundFree(f) # {} =>
            /\ ~(Accepted(e) /\ Accepted(f))
            /\ Rejected(e) =>
                  /\ outcome[e] = "CreationFailed"
                  /\ pc[e] = "done"
                  /\ Len(Creates(e)) = 1
                  /\ LastOf(calls[e]).op = "create"
                  /\ emp[e].azure_email = None
                  /\ emp[e].azure_user_id = None

\* both runs found a.b@x.y free, one created it and the other was rejected
C8_Witness ==
    /\ FoundFree("e1") \cap FoundFree("e2") # {}
    /\ Accepted("e1")
    /\ Rejected("e2")
    /\ Creates("e1")[1].arg = Creates("e2")[1].arg
    /\ pc["e2"] = "done"

UpperMail(d) == DlEmail(DeptNameUpper(dept[d].name), DomainValue)

LowerMail(d) == DlEmail(DeptNameLower(dept[d].name), DomainValue)

\* C9: a sync run over a directory that holds only the lowercase address,
\* which differs from the case-preserved one, searches twice, the
\* case-preserved address first and the lowercase one second, and links the
\* lowercase group; when the two addresses are equal a run searches once.
C9_SearchOrder ==
    \A d \in Depts :
        LET found == Searches(d)
        IN /\ ( /\ dpc[d] = "idle"
                /\ found # <<>>
                /\ \A i \in DOMAIN found : found[i].status = "200"
                /\ UpperMail(d) # LowerMail(d)
                /\ Group(UpperMail(d)) \notin groups
                /\ Group(LowerMail(d)) \in groups )
              => /\ found = <<Call("search", UpperMail(d), "200"),
                              Call("search", LowerMail(d), "200")>>
                 /\ dres[d] = "Linked"
                 /\ dept[d].azure_dl_email = LowerMail(d)
           /\ UpperMail(d) = LowerMail(d) =>
                 /\ Len(found) <= 1
                 /\ (dpc[d] = "idle" /\ dcalls[d] # <<>> /\ dcalls[d][1].status = "ok") =>
                        Len(found) = 1 /\ found[1].arg = UpperMail(d)

\* a finished run that missed the case-preserved address and then found
\* the lowercase one
C9_Witness ==
    \E d \in Depts :
        /\ UpperMail(d) # LowerMail(d)
        /\ dpc[d] = "idle"
        /\ dres[d] = "Linked"
        /\ dept[d].azure_dl_id = GroupId(LowerMail(d))
        /\ Group(UpperMail(d)) \notin groups
        /\ Len(Searches(d)) = 2

\* C10: an add-member request answered 400, as the directory answers for a
\* pair that is already a member, ends _add_to_dept_dl as already-a-member
\* without an error and changes neither the memberships nor the record nor
\* the unit.
C10_DuplicateAddIsNoOp ==
    [][\A e \in DOMAIN vals :
          (pc[e] = "dl_add" /\ pc'[e] = "done" /\ LastOf(lcalls'[e]).status = "400")
          => /\ linkLast'[e] = "AlreadyMember"
             /\ <<dept[emp[e].department_id].azure_dl_id, emp[e].azure_user_id>> \in members
             /\ members' = members
             /\ emp' = emp
             /\ dept' = dept]_vars

\* the second run for a pair whose first run was answered 204
C10_Witness ==
    \E e \in DOMAIN vals :
        /\ linkRuns[e] = 2
        /\ linkLast[e] = "AlreadyMember"
        /\ pc[e] = "done"
        /\ LastOf(lcalls[e]) =
               Call("add", dept[emp[e].department_id].azure_dl_id \o "/" \o emp[e].azure_user_id, "400")
        /\ <<dept[emp[e].department_id].azure_dl_id, emp[e].azure_user_id>> \in members

InLink(p) == p \in {"dl_create_dl", "dl_token", "dl_add", "dl_blocked"}

\* C11: however the group-linking step goes (no token, an add-member status
\* other than 204 and 400, an exception), _add_to_dept_dl returns to create
\* without an error and leaves the fields of the record as the account
\* creation set them.
C11_LinkFailureIsNotFatal ==
    [][\A e \in DOMAIN vals :
          InLink(pc[e]) => /\ emp'[e] = emp[e]
                           /\ InLink(pc'[e]) \/ pc'[e] = "done"]_vars

\* an account was created and the linking that followed it failed
C11_Witness ==
    \E e \in DOMAIN vals :
        /\ outcome[e] = "Created"
        /\ pc[e] = "done"
        /\ linkRuns[e] = 1
        /\ linkLast[e] \in {"MembershipLinkFailed", "Exception"}
        /\ emp[e].azure_email = LastOf(calls[e]).arg

\* C12: add-member requests are issued only for a record that has both a
\* unit and an account reference; a record that lacks one of them never
\* enters the linking step and ends its create without any linking call.
C12_LinkOnlyWithUnitAndAccount ==
    \A e \in DOMAIN vals :
        /\ (InLink(pc[e]) \/ lcalls[e] # <<>>) =>
              emp[e].department_id # None /\ emp[e].azure_user_id # None
        /\ (emp[e].department_id = None \/ emp[e].azure_user_id = None) =>
              /\ linkLast[e] \in {None, "Skipped"}
              /\ Adds(e) = <<>>

\* a record with a unit and a created account, but no account reference,
\* whose create skipped the linking step
C12_Witness ==
    \E e \in DOMAIN vals :
        /\ outcome[e] = "Created"
        /\ emp[e].department_id # None
        /\ emp[e].azure_user_id = None
        /\ pc[e] = "done"
        /\ linkRuns[e] = 0
        /\ lcalls[e] = <<>>

\* the whitespace-separated parts of a display name as it was given
GivenParts(name) == Split(name)

\* C13: the first address a run probes is lowercase(first part), ".",
\* lowercase(last part), "@", domain for a name of two or more parts, and
\* lowercase(part), ".", lowercase(part), "@", domain for a name of one part.
C13_BaseOfName ==
    \A e \in DOMAIN vals :
        LET ps == GivenParts(vals[e].name)
            probes == Lookups(e)
        IN  probes # <<>> =>
              /\ Len(ps) >= 2 =>
                    probes[1].arg = Join(Lower(ps[1])) \o "." \o Join(Lower(ps[Len(ps)]))
                                        \o "@" \o GetParam("azure_domain")
              /\ Len(ps) = 1 =>
                    probes[1].arg = Join(Lower(ps[1])) \o "." \o Join(Lower(ps[1]))
                                        \o "@" \o GetParam("azure_domain")

\* a name of three parts that holds an uppercase letter was probed
C13_Witness ==
    \E e \in DOMAIN vals :
        /\ Len(GivenParts(vals[e].name)) = 3
        /\ Lower(vals[e].name) # vals[e].name
        /\ Lookups(e) # <<>>

\* a token request that failed is the last request of its invocation, and
\* the only token request of it
EndsAtFailedToken(q) ==
    \A i \in DOMAIN q :
        (q[i].op = "token" /\ q[i].status # "ok") =>
            /\ i = Len(q)
            /\ \A j \in DOMAIN q : q[j].op = "token" => j = i

\* C14: in _create_azure_email, _add_to_dept_dl and action_sync_dl_from_azure
\* alike, a token response without access_token, or a token request that
\* raises, is followed by no other request of that invocation and is not
\* repeated.
C14_TokenFailureAborts ==
    /\ \A e \in DOMAIN vals : EndsAtFailedToken(calls[e]) /\ EndsAtFailedToken(lcalls[e])
    /\ \A d \in Depts : EndsAtFailedToken(dcalls[d])

\* C15: every run ends, also against a directory that never answers: a
\* record whose create was called comes to the end of create, and a sync
\* action that was started returns.
C15_EveryRunEnds ==
    /\ \A e \in Emps : (pc[e] # "new") ~> (pc[e] = "done")
    /\ \A d \in Depts : (dpc[d] # "idle") ~> (dpc[d] = "idle")

InAlloc(p) == p \in {"cae_token", "cae_check", "cae_create"}

\* C16: a lookup answered with a status that is neither 200 nor 404 ends
\* _create_azure_email there: it is the last request of the run, which makes
\* no other lookup and no create-account request.
C16_LookupErrorAborts ==
    \A e \in DOMAIN vals : \A i \in DOMAIN calls[e] :
        (calls[e][i].op = "lookup" /\ calls[e][i].status \notin {"200", "404", "exc"}) =>
            /\ i = Len(calls[e])
            /\ Creates(e) = <<>>
            /\ ~InAlloc(pc[e])
            /\ outcome[e] = "LookupError"

\* the second lookup of a run, made after a taken address, was answered 500
C16_Witness ==
    \E e \in DOMAIN vals :
        /\ Len(Lookups(e)) = 2
        /\ Lookups(e)[1].status = "200"
        /\ Lookups(e)[2].status = "500"
        /\ outcome[e] = "LookupError"

\* C17: a run makes at most one create-account request and nothing after
\* it; when the answer is not 201 the run ends with "Failed to create user"
\* and the record's azure_email and work_email are as they were.
C17_CreationFailureEnds ==
    \A e \in DOMAIN vals :
        /\ Len(Creates(e)) <= 1
        /\ Creates(e) # <<>> => LastOf(calls[e]).op = "create"
        /\ Rejected(e) =>
              /\ ~InAlloc(pc[e])
              /\ outcome[e] = "CreationFailed"
              /\ emp[e].azure_email = vals[e].azure_email
              /\ emp[e].work_email = vals[e].work_email

\* a record that came with the address of an earlier provisioning had its
\* create-account request rejected after two lookups, and keeps that address
C17_Witness ==
    \E e \in DOMAIN vals :
        /\ Rejected(e)
        /\ Len(Lookups(e)) = 2
        /\ pc[e] = "done"
        /\ emp[e].azure_email = LegacyUpn(e)
        /\ emp[e].work_email = LegacyUpn(e)

\* C18: _add_to_dept_dl makes no request for a record without an account
\* reference, for a record without a unit, and for a unit that has no
\* linked group once create_dl was tried: requests are made only with all
\* three present, and a run that ended on one of the three made none.
C18_NoRequestWithoutGroup ==
    \A e \in DOMAIN vals :
        /\ (pc[e] \in {"dl_token", "dl_add", "dl_blocked"} \/ lcalls[e] # <<>>) =>
              /\ emp[e].azure_user_id # None
              /\ emp[e].department_id # None
              /\ dept[emp[e].department_id].azure_dl_id # None
        /\ (pc[e] = "done" /\ linkLast[e] \in {"Skipped", "NoGroup"}) =>
              lcalls[e] = <<>>

\* a run that tried create_dl, found the unit still without a linked group
\* and returned without a request
C18_Witness ==
    \E e \in DOMAIN vals :
        /\ pc[e] = "done"
        /\ linkLast[e] = "NoGroup"
        /\ lcalls[e] = <<>>
        /\ dept[emp[e].department_id].azure_dl_id = None

\* C19: under every interleaving of the runs of two records, no two records
\* hold the same azure_email, and an azure_email that is set is the
\* principal name of an account of the directory.
C19_MailboxesDistinct ==
    \A e \in DOMAIN vals :
        emp[e].azure_email # None =>
            /\ emp[e].azure_email \in users
            /\ \A f \in DOMAIN vals \ {e} : emp[f].azure_email # emp[e].azure_email

\* both records were provisioned, the second with the suffixed address
C19_Witness ==
    /\ emp["e1"].azure_email = BaseEmail(NameAB, DomainValue)
    /\ emp["e2"].azure_email = SuffixedEmail(NameAb, 2, DomainValue)
    /\ pc["e1"] = "done"
    /\ pc["e2"] = "done"

\* a step of the sync action on d
SyncActs(d) == dpc'[d] # dpc[d] \/ dcalls'[d] # dcalls[d]

\* C20: action_sync_dl_from_azure writes the unit's azure_dl_email and
\* azure_dl_id only with a search answered 200 with a group, taking the mail
\* and id of that group; a group found for the case-preserved address ends
\* the run after one search; a run that ends in any other way (no
\* credentials, no token, both searches empty or not answered 200, an
\* exception) leaves the two fields as they were.
C20_SyncWritesOnlyFoundGroup ==
    [][\A d \in Depts :
          SyncActs(d) =>
            IF dres'[d] = "Linked"
            THEN LET c == LastOf(dcalls'[d])
                     g == Group(c.arg)
                 IN /\ c.op = "search"
                    /\ c.status = "200"
                    /\ g \in groups
                    /\ dept'[d].azure_dl_email = g.mail
                    /\ dept'[d].azure_dl_id = g.id
                    /\ c.arg = UpperMail(d) => Len(SelectSeq(dcalls'[d], IsSearch)) = 1
                    /\ c.arg # UpperMail(d) =>
                          SelectSeq(dcalls'[d], IsSearch)[1].arg = UpperMail(d)
            ELSE dept'[d] = dept[d]]_vars

\* a run found the group of the case-preserved address, linked the unit to
\* it and never searched the lowercase address, whose group exists too
C20_Witness ==
    \E d \in Depts :
        /\ UpperMail(d) # LowerMail(d)
        /\ Group(LowerMail(d)) \in groups
        /\ dpc[d] = "idle"
        /\ dres[d] = "Linked"
        /\ Searches(d) = <<Call("search", UpperMail(d), "200")>>
        /\ dept[d].azure_dl_email = UpperMail(d)
        /\ dept[d].azure_dl_id = GroupId(UpperMail(d))

====
